---- MODULE Spec2Model ----
(***************************************************************************)
(* Model of the Tightly-Coupled Capability Proof (src/src/tccp.cpp):       *)
(* the LCG, CalculateSeed, GenerateVirtualChallenge, TCCP::ComputeProof    *)
(* and TCCP::VerifyBlock.                                                  *)
(*                                                                         *)
(* A uint256 is a sequence of 32 bytes, least significant byte first, as   *)
(* base_blob stores it.  A uint64_t is a sequence of 8 bytes, least        *)
(* significant first, so that 64-bit wraparound arithmetic is computed     *)
(* limb by limb and no intermediate value leaves the range of TLC's        *)
(* integers.  A uint32_t is a sequence of 4 bytes, least significant       *)
(* first.  A script is the sequence of its bytes.                          *)
(***************************************************************************)
EXTENDS Integers, Sequences, FiniteSets, TLC

VARIABLES
    block,               \* CBlock: [vtx |-> sequence of transactions]
    pindexPrev,          \* parent handle: NullIndex, or the parent's hash
    limit,               \* params.nTCCPChallengeSize
    pc,                  \* "idle", "gen" (loop of lines 45-64), "ret", "done"
    caller,              \* who called ComputeProof: "none", "miner", "verify"
    commitmentOutIndex,  \* VerifyBlock local, line 90
    submittedProof,      \* VerifyBlock local, line 89
    M_real,              \* VerifyBlock local M_real_reconstructed, line 106
    cpPrev,              \* ComputeProof argument prevBlockHash
    cpRoot,              \* ComputeProof argument provisionalMerkleRoot
    m_state,             \* LCG::m_state of the generator prng
    currentSize,         \* GenerateVirtualChallenge local, line 43
    virtualTxs,          \* GenerateVirtualChallenge local, line 41
    rejected,            \* sizes of the transactions the loop discarded at its break
    firstSize,           \* size of the first transaction the loop generated (0: none yet)
    proof,               \* value returned by the last ComputeProof
    merkleCalls,         \* calls of ComputeMerkleRoot made by the last ComputeProof
    verdict,             \* value returned by VerifyBlock: "none", "true", "false"
    calls,               \* completed ComputeProof invocations: inputs and result
    randsUsed,           \* values InsecureRand256() returned so far
    built,               \* the producer's record of the block it assembled
    scanned,             \* coinbase outputs VerifyBlock looked at
    lcgPrev,             \* generator state before the last next()
    lcgOut,              \* value returned by the last next()
    lcgN                 \* number of next() calls made on the generator

vars == <<block, pindexPrev, limit, pc, caller, commitmentOutIndex, submittedProof,
          M_real, cpPrev, cpRoot, m_state, currentSize, virtualTxs, rejected,
          firstSize, proof, merkleCalls, verdict, calls, randsUsed, built, scanned,
          lcgPrev, lcgOut, lcgN>>

----------------------------------------------------------------------------
(* Bounds of the model *)

\* most outputs of a coinbase before a producer adds its commitment
MaxOuts == 1
\* most outputs of the coinbase of a block offered to VerifyBlock by anyone
MaxAnyOuts == 2
\* most ComputeProof invocations a producer makes for one block
MaxCalls == 2
\* most next() calls followed on one generator in SpecLCG
MaxNext == 40

----------------------------------------------------------------------------
(* Bytes and fixed-width values *)

Byte == 0..255

\* a function over 1..n as the tuple of its values
Tup(f) == f \o <<>>

\* the one element of a singleton set; used as Only({e(x) : x \in {v}}) it
\* gives e(v) with v evaluated once
Only(S) == CHOOSE y \in S : TRUE

Zero256 == Tup([i \in 1..32 |-> 0])

\* the uint256 whose least significant byte is n and whose other bytes are 0
U256(n) == Tup([i \in 1..32 |-> IF i = 1 THEN n ELSE 0])

\* one bit of a 32-byte value flipped: bit b (0..7) of byte k (1..32)
FlipBit(p, k, b) ==
    LET w == IF b = 0 THEN 1 ELSE IF b = 7 THEN 128 ELSE 16
        old == (p[k] \div w) % 2
    IN  [p EXCEPT ![k] = IF old = 1 THEN p[k] - w ELSE p[k] + w]

RECURSIVE SumSeq(_)
SumSeq(s) == IF s = <<>> THEN 0 ELSE Head(s) + SumSeq(Tail(s))

RECURSIVE Concat(_)
Concat(ss) == IF ss = <<>> THEN <<>> ELSE Head(ss) \o Concat(Tail(ss))

----------------------------------------------------------------------------
(* LCG, lines 20-29 *)

LCG_A == 1664525
LCG_C == 1013904223

\* byte i (1..8) of the 64-bit value of the int constant LCG_C
CByte(i) ==
    IF i = 1 THEN LCG_C % 256
    ELSE IF i = 2 THEN (LCG_C \div 256) % 256
    ELSE IF i = 3 THEN (LCG_C \div 65536) % 256
    ELSE IF i = 4 THEN (LCG_C \div 16777216) % 256
    ELSE 0

\* LCG::LCG: m_state = bit_cast<uint64_t>(seed), the first 8 bytes of the blob
LCGInit(seed) == SubSeq(seed, 1, 8)

\* returns the low 32 bits instead of the high 32 bits
LCGOutputLow(s) == SubSeq(s, 1, 4)

\* m_state >> 32 converted to uint32_t
LCGOutput(s) == SubSeq(s, 5, 8)

\* the 8 bytes of the 64-bit value of the int constant LCG_C
LCG_C_Bytes == <<CByte(1), CByte(2), CByte(3), CByte(4), 0, 0, 0, 0>>

\* 32-bit arithmetic: the high half of the state is lost
LCGStep32(s) ==
    LET t1 == s[1] * LCG_A + LCG_C_Bytes[1]
        t2 == s[2] * LCG_A + LCG_C_Bytes[2] + (t1 \div 256)
        t3 == s[3] * LCG_A + LCG_C_Bytes[3] + (t2 \div 256)
        t4 == s[4] * LCG_A + LCG_C_Bytes[4] + (t3 \div 256)
    IN  <<t1 % 256, t2 % 256, t3 % 256, t4 % 256, 0, 0, 0, 0>>

\* m_state = 1664525 * m_state + 1013904223 in uint64_t: the product and the
\* sum are taken byte by byte with carries, the carry out of byte 8 dropped
LCGStep(s) ==
    LET t1 == s[1] * LCG_A + LCG_C_Bytes[1]
        t2 == s[2] * LCG_A + LCG_C_Bytes[2] + (t1 \div 256)
        t3 == s[3] * LCG_A + LCG_C_Bytes[3] + (t2 \div 256)
        t4 == s[4] * LCG_A + LCG_C_Bytes[4] + (t3 \div 256)
        t5 == s[5] * LCG_A + LCG_C_Bytes[5] + (t4 \div 256)
        t6 == s[6] * LCG_A + LCG_C_Bytes[6] + (t5 \div 256)
        t7 == s[7] * LCG_A + LCG_C_Bytes[7] + (t6 \div 256)
        t8 == s[8] * LCG_A + LCG_C_Bytes[8] + (t7 \div 256)
    IN  <<t1 % 256, t2 % 256, t3 % 256, t4 % 256, t5 % 256, t6 % 256, t7 % 256, t8 % 256>>

\* the k states the generator goes through in k calls of next() from state s
RECURSIVE LCGRun(_, _)
LCGRun(s, k) ==
    IF k = 0 THEN <<>>
    ELSE Only({<<n>> \o LCGRun(n, k - 1) : n \in {LCGStep(s)}})

\* v % 100 of a uint32_t
Mod100(v) == ((((((v[4] % 100) * 256 + v[3]) % 100) * 256 + v[2]) % 100) * 256 + v[1]) % 100

----------------------------------------------------------------------------
(* Collaborators of the host: scripts, serialization, hashes *)

OP_0 == 0
OP_1 == 81
OP_RETURN == 106
\* the push of 36 bytes that byte 1 of a commitment script must be
PUSH_36 == 36

\* the 4-byte tag of a commitment output, defined outside tccp.cpp; its value
\* here is the ASCII of "TCCP", and nothing below depends on the value
TCCP_MAGIC_BYTES == <<84, 67, 67, 80>>

\* the bytes of a uint32_t as CScriptNum::serialize writes the number: the
\* least number of bytes, one more when the top bit of the last one is set
ScriptNumBytes(v) ==
    LET n == IF v[4] # 0 THEN 4 ELSE IF v[3] # 0 THEN 3 ELSE IF v[2] # 0 THEN 2 ELSE 1
        b == SubSeq(v, 1, n)
    IN  IF b[n] >= 128 THEN b \o <<0>> ELSE b

\* CScript() << x for a uint32_t x, by CScript::operator<<(int64_t)
PushInt(v) ==
    IF v[2] = 0 /\ v[3] = 0 /\ v[4] = 0 /\ v[1] = 0 THEN <<OP_0>>
    ELSE IF v[2] = 0 /\ v[3] = 0 /\ v[4] = 0 /\ v[1] <= 16 THEN <<OP_1 - 1 + v[1]>>
    ELSE <<Len(ScriptNumBytes(v))>> \o ScriptNumBytes(v)

\* CScript() << data for a vector of fewer than 76 bytes
PushData(d) == <<Len(d)>> \o d

\* a 32-bit integer of value v < 256, little endian
Int32(v) == <<v, 0, 0, 0>>

\* CTxIn as serialized: prevout (hash, n), scriptSig, nSequence
SerializeTxIn(in) ==
    in.hash \o in.n \o <<Len(in.scriptSig)>> \o in.scriptSig \o in.nSequence

\* CTxOut as serialized: nValue in 8 bytes, scriptPubKey
SerializeTxOut(out) ==
    <<out.nValue, 0, 0, 0, 0, 0, 0, 0>> \o <<Len(out.scriptPubKey)>> \o out.scriptPubKey

\* CTransaction as serialized
SerializeTx(tx) ==
    Int32(tx.nVersion)
    \o <<Len(tx.vin)>> \o Concat(Tup([i \in 1..Len(tx.vin) |-> SerializeTxIn(tx.vin[i])]))
    \o <<Len(tx.vout)>> \o Concat(Tup([i \in 1..Len(tx.vout) |-> SerializeTxOut(tx.vout[i])]))
    \o Int32(tx.nLockTime)

\* CTransaction::GetTotalSize
GetTotalSize(tx) == Len(SerializeTx(tx))

\* the double hash, stood in for by a 20-bit mixing function spread over 32
\* bytes: deterministic, sensitive to every byte, to the order of the bytes
\* and to their number.  Bytes are mixed 8 at a time, the mixes pairwise
ByteAt(b, i) == IF i <= Len(b) THEN b[i] + 1 ELSE 0

HashChunk(b, lo) ==
    (ByteAt(b, lo) * 3 + ByteAt(b, lo + 1) * 5 + ByteAt(b, lo + 2) * 7
     + ByteAt(b, lo + 3) * 11 + ByteAt(b, lo + 4) * 13 + ByteAt(b, lo + 5) * 17
     + ByteAt(b, lo + 6) * 19 + ByteAt(b, lo + 7) * 23 + lo * 31) % 1000003

\* the mix of chunks lo..hi, chunk c holding the bytes 8c-7..8c
RECURSIVE HashRange(_, _, _)
HashRange(b, lo, hi) ==
    IF lo > hi THEN 7
    ELSE IF lo = hi THEN HashChunk(b, 8 * lo - 7)
    ELSE LET mid == (lo + hi) \div 2
         IN  (HashRange(b, lo, mid) * 131 + HashRange(b, mid + 1, hi) * 7 + 3) % 1000003

HashSpread(a) ==
    Tup([i \in 1..32 |-> (((a + i * i) * ((a % 1021) + 2 * i + 1)) \div 64) % 256])

Hash256(b) ==
    Only({HashSpread(a) : a \in {HashRange(v, 1, (Len(v) + 7) \div 8) : v \in {b}}})

\* CTransaction::GetHash
GetHash(tx) == Hash256(SerializeTx(tx))

\* ComputeMerkleRoot of consensus/merkle: pairwise combination, the last
\* node doubled when a level has an odd number of nodes
\* one level of the tree above the nodes: each pair hashed, the last node
\* paired with itself when it has no partner
MerkleLevel(nodes) ==
    Tup([k \in 1..((Len(nodes) + 1) \div 2) |->
            Hash256(nodes[2 * k - 1]
                    \o (IF 2 * k <= Len(nodes) THEN nodes[2 * k] ELSE nodes[2 * k - 1]))])

RECURSIVE ComputeMerkleRoot(_)
ComputeMerkleRoot(leaves) ==
    IF Len(leaves) = 0 THEN Zero256
    ELSE IF Len(leaves) = 1 THEN leaves[1]
    ELSE Only({ComputeMerkleRoot(level) : level \in {MerkleLevel(leaves)}})

\* BlockMerkleRoot of consensus/merkle
BlockMerkleRoot(vtx) == ComputeMerkleRoot(Tup([i \in 1..Len(vtx) |-> GetHash(vtx[i])]))

----------------------------------------------------------------------------
(* CalculateSeed, lines 32-37 *)

CalculateSeed(prevBlockHash, merkleRoot) == Hash256(prevBlockHash \o merkleRoot)

----------------------------------------------------------------------------
(* One pass of the body of the loop of GenerateVirtualChallenge, lines 46-59 *)

\* the transaction built from the value r that InsecureRand256() returned
\* and the 35 values of next(); g[k] is the generator state after the k-th call
VirtualTx(g, r) ==
    [nVersion |-> 1,
     nLockTime |-> 0,
     vin |-> << [hash |-> r,
                 n |-> Int32(Mod100(LCGOutput(g[1]))),
                 scriptSig |-> PushInt(LCGOutput(g[2])) \o PushInt(LCGOutput(g[3])),
                 nSequence |-> <<255, 255, 255, 255>>] >>,
     vout |-> << [nValue |-> 0,
                  scriptPubKey |-> <<OP_RETURN>>
                      \o PushData(Tup([i \in 1..32 |-> LCGOutput(g[3 + i])[1]]))] >>]

\* calls of next() in one pass of the loop: 1 for prevout.n, 2 for scriptSig,
\* 32 for the payload
DrawsPerTx == 35

----------------------------------------------------------------------------
(* GenerateVirtualChallenge, lines 40-66, and ComputeProof, lines 72-83 *)

\* accepts a transaction that fills the budget exactly as one too many
ExceedsOrFills(cur, txSize, maxSize) == cur + txSize >= maxSize

\* line 61: currentSize + txSize > maxSize
Exceeds(cur, txSize, maxSize) == cur + txSize > maxSize

\* forgets to count the accepted transaction
GrownNot(cur, txSize) == cur

\* line 63: currentSize += txSize
Grown(cur, txSize) == cur + txSize

\* hashes the leaves in the reverse of the generation order
ProofOfReversed(txs) ==
    IF txs = <<>> THEN Zero256
    ELSE ComputeMerkleRoot(Tup([i \in 1..Len(txs) |-> GetHash(txs[Len(txs) + 1 - i])]))

\* lines 75-82: the value ComputeProof returns for the challenge set txs
ProofOf(txs) ==
    IF txs = <<>> THEN Zero256
    ELSE ComputeMerkleRoot(Tup([i \in 1..Len(txs) |-> GetHash(txs[i])]))

\* hands an empty challenge set to ComputeMerkleRoot as well
MerkleCallsOfAlways(txs) == 1

\* the calls of ComputeMerkleRoot lines 75-82 make for the challenge set txs
MerkleCallsOf(txs) == IF txs = <<>> THEN 0 ELSE 1

\* lines 73-74 and 41-43: ComputeProof is entered by `who` and reaches the loop
StartComputeProof(prev, root, who) ==
    /\ cpPrev' = prev
    /\ cpRoot' = root
    /\ m_state' = LCGInit(CalculateSeed(prev, root))
    /\ lcgPrev' = m_state'
    /\ lcgOut' = <<0, 0, 0, 0>>
    /\ lcgN' = 0
    /\ currentSize' = 0
    /\ virtualTxs' = <<>>
    /\ rejected' = <<>>
    /\ firstSize' = 0
    /\ merkleCalls' = 0
    /\ caller' = who
    /\ pc' = "gen"

\* the values InsecureRand256() returns in the model
RandSet == {Zero256, U256(7)}

\* one pass of the loop, lines 45-64; r is what InsecureRand256() returns
GenStep ==
    /\ pc = "gen"
    /\ \E g \in {LCGRun(m_state, DrawsPerTx)} : \E r \in RandSet :
        \E tx \in {VirtualTx(g, r)} : \E txSize \in {GetTotalSize(tx)} :
            /\ randsUsed' = randsUsed \cup {r}
            /\ m_state' = g[DrawsPerTx]
            /\ lcgPrev' = g[DrawsPerTx - 1]
            /\ lcgOut' = LCGOutput(g[DrawsPerTx])
            /\ lcgN' = lcgN + DrawsPerTx
            /\ firstSize' = IF firstSize = 0 THEN txSize ELSE firstSize
            /\ IF Exceeds(currentSize, txSize, limit)
               THEN /\ pc' = "ret"
                    /\ rejected' = Append(rejected, txSize)
                    /\ UNCHANGED <<virtualTxs, currentSize>>
               ELSE /\ pc' = "gen"
                    /\ virtualTxs' = Append(virtualTxs, tx)
                    /\ currentSize' = Grown(currentSize, txSize)
                    /\ UNCHANGED rejected
    /\ UNCHANGED <<block, pindexPrev, limit, caller, commitmentOutIndex, submittedProof,
                   M_real, cpPrev, cpRoot, proof, merkleCalls, verdict, calls, built,
                   scanned>>

\* the record of a completed ComputeProof invocation
CallRecord(p) == [prev |-> cpPrev, root |-> cpRoot, limit |-> limit, proof |-> p]

\* lines 75-82, ComputeProof returning to the producer that called it
ComputeProofReturn ==
    /\ pc = "ret"
    /\ caller = "miner"
    /\ proof' = ProofOf(virtualTxs)
    /\ merkleCalls' = MerkleCallsOf(virtualTxs)
    /\ calls' = Append(calls, CallRecord(proof'))
    /\ caller' = "none"
    /\ pc' = "idle"
    /\ UNCHANGED <<block, pindexPrev, limit, commitmentOutIndex, submittedProof, M_real,
                   cpPrev, cpRoot, m_state, currentSize, virtualTxs, rejected, firstSize,
                   verdict, randsUsed, built, scanned, lcgPrev, lcgOut, lcgN>>

----------------------------------------------------------------------------
(* VerifyBlock, lines 85-118 *)

\* the absent parent handle (pindexPrev == nullptr)
NullIndex == <<>>

\* never takes the block for the genesis block
IsGenesisNever(prev) == FALSE

\* line 86: !pindexPrev
IsGenesis(prev) == prev = NullIndex

\* does not check the length of the script
IsCommitmentAnyLength(script) ==
    /\ Len(script) >= 38
    /\ script[1] = OP_RETURN
    /\ script[2] = PUSH_36
    /\ SubSeq(script, 3, 6) = TCCP_MAGIC_BYTES

\* lines 94-96: the script is a commitment
IsCommitment(script) ==
    /\ Len(script) = 38
    /\ script[1] = OP_RETURN
    /\ script[2] = PUSH_36
    /\ SubSeq(script, 3, 6) = TCCP_MAGIC_BYTES

\* line 98: the proof a commitment script carries
ProofBytes(script) == SubSeq(script, 7, 38)

\* keeps the last of several commitments instead of returning false
RECURSIVE ScanKeepsLast(_, _, _, _)
ScanKeepsLast(vout, i, idx, prf) ==
    IF i >= Len(vout) THEN [dup |-> FALSE, idx |-> idx, proof |-> prf, scanned |-> i]
    ELSE IF IsCommitment(vout[i + 1].scriptPubKey)
         THEN ScanKeepsLast(vout, i + 1, i, ProofBytes(vout[i + 1].scriptPubKey))
         ELSE ScanKeepsLast(vout, i + 1, idx, prf)

\* lines 92-102: the loop over the coinbase outputs from index i (0-based) on,
\* with commitmentOutIndex = idx and submittedProof = prf; dup is the
\* `return false` of line 97, scanned the outputs looked at
RECURSIVE Scan(_, _, _, _)
Scan(vout, i, idx, prf) ==
    IF i >= Len(vout) THEN [dup |-> FALSE, idx |-> idx, proof |-> prf, scanned |-> i]
    ELSE IF IsCommitment(vout[i + 1].scriptPubKey)
         THEN IF idx # -1
              THEN [dup |-> TRUE, idx |-> idx, proof |-> prf, scanned |-> i + 1]
              ELSE Scan(vout, i + 1, i, ProofBytes(vout[i + 1].scriptPubKey))
         ELSE Scan(vout, i + 1, idx, prf)

\* erases the first output whatever the index
EraseFirst(vout, idx) == SubSeq(vout, 2, Len(vout))

\* line 109: vout.erase(vout.begin() + idx), idx 0-based
Erase(vout, idx) == SubSeq(vout, 1, idx) \o SubSeq(vout, idx + 2, Len(vout))

\* lines 108-113: the root of the block with output idx of the coinbase removed
ReconstructedRoot(vtx, idx) ==
    BlockMerkleRoot([vtx EXCEPT ![1] = [vtx[1] EXCEPT !.vout = Erase(vtx[1].vout, idx)]])

\* lines 85-116: VerifyBlock from its entry to its return or its call of ComputeProof
VerifyBlockCall ==
    /\ pc = "idle"
    /\ verdict = "none"
    /\ IF IsGenesis(pindexPrev)
       THEN /\ verdict' = "true"
            /\ pc' = "done"
            /\ UNCHANGED <<caller, commitmentOutIndex, submittedProof, M_real, cpPrev,
                           cpRoot, m_state, currentSize, virtualTxs, rejected, firstSize,
                           merkleCalls, scanned, lcgPrev, lcgOut, lcgN>>
       ELSE LET s == Scan(block.vtx[1].vout, 0, -1, Zero256)
            IN  /\ scanned' = s.scanned
                /\ commitmentOutIndex' = s.idx
                /\ submittedProof' = s.proof
                /\ IF s.dup \/ s.idx = -1
                   THEN /\ verdict' = "false"
                        /\ pc' = "done"
                        /\ UNCHANGED <<caller, M_real, cpPrev, cpRoot, m_state, currentSize,
                                       virtualTxs, rejected, firstSize, merkleCalls,
                                       lcgPrev, lcgOut, lcgN>>
                   ELSE /\ M_real' = ReconstructedRoot(block.vtx, s.idx)
                        /\ StartComputeProof(pindexPrev, M_real', "verify")
                        /\ UNCHANGED verdict
    /\ UNCHANGED <<block, pindexPrev, limit, proof, calls, randsUsed, built>>

\* lines 75-82 and 116-117: ComputeProof returns to VerifyBlock, which compares
VerifyBlockReturn ==
    /\ pc = "ret"
    /\ caller = "verify"
    /\ proof' = ProofOf(virtualTxs)
    /\ merkleCalls' = MerkleCallsOf(virtualTxs)
    /\ calls' = Append(calls, CallRecord(proof'))
    /\ verdict' = IF submittedProof = proof' THEN "true" ELSE "false"
    /\ caller' = "none"
    /\ pc' = "done"
    /\ UNCHANGED <<block, pindexPrev, limit, commitmentOutIndex, submittedProof, M_real,
                   cpPrev, cpRoot, m_state, currentSize, virtualTxs, rejected, firstSize,
                   randsUsed, built, scanned, lcgPrev, lcgOut, lcgN>>

----------------------------------------------------------------------------
(* The producer: ComputeProof over its block, then the commitment output *)

\* the commitment script for proof p: OP_RETURN, push of 36 bytes, tag, proof
Commitment(p) == <<OP_RETURN, PUSH_36>> \o TCCP_MAGIC_BYTES \o p

TxOut(script) == [nValue |-> 0, scriptPubKey |-> script]

InsertAt(seq, pos, x) == SubSeq(seq, 1, pos) \o <<x>> \o SubSeq(seq, pos + 1, Len(seq))

\* the producer calls ComputeProof(parent hash, root of its block, params)
MinerComputeProof ==
    /\ pc = "idle"
    /\ verdict = "none"
    /\ built.stage = "template"
    /\ Len(calls) < MaxCalls
    /\ StartComputeProof(pindexPrev, BlockMerkleRoot(block.vtx), "miner")
    /\ UNCHANGED <<block, pindexPrev, limit, commitmentOutIndex, submittedProof, M_real,
                   proof, verdict, calls, randsUsed, built, scanned>>

\* the producer inserts the commitment to the proof it computed last among
\* the outputs of the coinbase, before them or after them
InsertCommitment ==
    /\ pc = "idle"
    /\ verdict = "none"
    /\ built.stage = "template"
    /\ calls # <<>>
    /\ \E pos \in {0, Len(block.vtx[1].vout)} :
        /\ block' = [block EXCEPT !.vtx[1].vout =
                        InsertAt(@, pos, TxOut(Commitment(calls[Len(calls)].proof)))]
        /\ built' = [stage |-> "built", pos |-> pos, k |-> Len(calls)]
    /\ UNCHANGED <<pindexPrev, limit, pc, caller, commitmentOutIndex, submittedProof, M_real,
                   cpPrev, cpRoot, m_state, currentSize, virtualTxs, rejected, firstSize,
                   proof, merkleCalls, verdict, calls, randsUsed, scanned,
                   lcgPrev, lcgOut, lcgN>>

\* the bits of the proof a tamperer may flip: <<byte, bit>>
TamperBits == {<<1, 0>>, <<32, 7>>}

\* one bit of the proof in the commitment output is flipped
TamperProof ==
    /\ pc = "idle"
    /\ verdict = "none"
    /\ built.stage = "built"
    /\ \E b \in TamperBits :
        block' = [block EXCEPT !.vtx[1].vout[built.pos + 1].scriptPubKey =
                     Commitment(FlipBit(ProofBytes(@), b[1], b[2]))]
    /\ built' = [built EXCEPT !.stage = "tampered"]
    /\ UNCHANGED <<pindexPrev, limit, pc, caller, commitmentOutIndex, submittedProof, M_real,
                   cpPrev, cpRoot, m_state, currentSize, virtualTxs, rejected, firstSize,
                   proof, merkleCalls, verdict, calls, randsUsed, scanned,
                   lcgPrev, lcgOut, lcgN>>

----------------------------------------------------------------------------
(* Blocks, parents and limits of the model *)

SeqsUpTo(S, n) == UNION {[1..k -> S] : k \in 0..n}

\* a pay-to-public-key-hash script
PlainScript ==
    <<118, 169, 20>> \o Tup([i \in 1..20 |-> i]) \o <<136, 172>>

\* scripts that differ from a commitment in one respect each
Short37 == SubSeq(Commitment(U256(5)), 1, 37)
Long39 == Commitment(U256(5)) \o <<0>>
WrongOpcode == [Commitment(U256(5)) EXCEPT ![1] = 97]
WrongPush == [Commitment(U256(5)) EXCEPT ![2] = 35]
WrongMagic == [Commitment(U256(5)) EXCEPT ![6] = 81]

\* scripts of the outputs of a block offered to VerifyBlock by anyone
AnyScripts ==
    {Commitment(Zero256), Commitment(U256(5)), PlainScript,
     Short37, Long39, WrongOpcode, WrongPush, WrongMagic}

\* scripts of the outputs of a producer's coinbase before the commitment
TemplateScripts == {PlainScript}

Coinbase(scripts) ==
    [nVersion |-> 1,
     nLockTime |-> 0,
     vin |-> << [hash |-> Zero256, n |-> <<255, 255, 255, 255>>,
                 scriptSig |-> <<1, 1>>, nSequence |-> <<255, 255, 255, 255>>] >>,
     vout |-> Tup([i \in 1..Len(scripts) |-> TxOut(scripts[i])])]

OtherTx ==
    [nVersion |-> 1,
     nLockTime |-> 0,
     vin |-> << [hash |-> U256(9), n |-> Int32(0),
                 scriptSig |-> <<1, 2>>, nSequence |-> <<255, 255, 255, 255>>] >>,
     vout |-> << TxOut(PlainScript) >>]

OtherTxs == {<<>>, <<OtherTx>>}

PrevHashes == {U256(1), U256(2)}

\* values of nTCCPChallengeSize offered to VerifyBlock and the producer
Limits == {0, 106}

\* values of nTCCPChallengeSize ComputeProof is called with on its own
GenLimits == {0, 103, 104, 105, 106, 209, 210, 211, 212, 500}

Roots == {U256(2), U256(3), U256(4)}

InitCommon ==
    /\ pc = "idle"
    /\ caller = "none"
    /\ commitmentOutIndex = -1
    /\ submittedProof = Zero256
    /\ M_real = Zero256
    /\ currentSize = 0
    /\ virtualTxs = <<>>
    /\ rejected = <<>>
    /\ firstSize = 0
    /\ proof = Zero256
    /\ merkleCalls = 0
    /\ verdict = "none"
    /\ calls = <<>>
    /\ randsUsed = {}
    /\ scanned = 0
    /\ lcgOut = <<0, 0, 0, 0>>
    /\ lcgN = 0

----------------------------------------------------------------------------
(* Spec: a producer builds a block on a parent, the block is verified *)

Init ==
    /\ InitCommon
    /\ \E outs \in SeqsUpTo(TemplateScripts, MaxOuts) : \E txs \in OtherTxs :
        block = [vtx |-> <<Coinbase(outs)>> \o txs]
    /\ pindexPrev \in PrevHashes
    /\ limit \in Limits
    /\ cpPrev = Zero256
    /\ cpRoot = Zero256
    /\ m_state = LCGInit(Zero256)
    /\ lcgPrev = m_state
    /\ built = [stage |-> "template", pos |-> 0, k |-> 0]

Next ==
    \/ MinerComputeProof
    \/ GenStep
    \/ ComputeProofReturn
    \/ InsertCommitment
    \/ TamperProof
    \/ VerifyBlockCall
    \/ VerifyBlockReturn

Spec == Init /\ [][Next]_vars

----------------------------------------------------------------------------
(* SpecVerify: VerifyBlock on any block, with or without a parent *)

InitVerify ==
    /\ InitCommon
    /\ \E outs \in SeqsUpTo(AnyScripts, MaxAnyOuts) :
        block = [vtx |-> <<Coinbase(outs), OtherTx>>]
    /\ pindexPrev \in {NullIndex, U256(1)}
    /\ limit \in {0, 105}
    /\ cpPrev = Zero256
    /\ cpRoot = Zero256
    /\ m_state = LCGInit(Zero256)
    /\ lcgPrev = m_state
    /\ built = [stage |-> "none", pos |-> 0, k |-> 0]

NextVerify ==
    \/ VerifyBlockCall
    \/ GenStep
    \/ VerifyBlockReturn

SpecVerify == InitVerify /\ [][NextVerify]_vars

----------------------------------------------------------------------------
(* SpecGen: ComputeProof called on its own *)

ComputeProofCall ==
    /\ pc = "idle"
    /\ calls = <<>>
    /\ StartComputeProof(cpPrev, cpRoot, "miner")
    /\ UNCHANGED <<block, pindexPrev, limit, commitmentOutIndex, submittedProof, M_real,
                   proof, verdict, calls, randsUsed, built, scanned>>

InitGen ==
    /\ InitCommon
    /\ block = [vtx |-> <<Coinbase(<<>>)>>]
    /\ pindexPrev = NullIndex
    /\ limit \in GenLimits
    /\ cpPrev \in PrevHashes
    /\ cpRoot \in Roots
    /\ m_state = LCGInit(Zero256)
    /\ lcgPrev = m_state
    /\ built = [stage |-> "none", pos |-> 0, k |-> 0]

NextGen ==
    \/ ComputeProofCall
    \/ GenStep
    \/ ComputeProofReturn

SpecGen == InitGen /\ [][NextGen]_vars

\* the loop and the return are sequential code: a step that can be taken is taken
FairSpecGen == SpecGen /\ WF_vars(GenStep) /\ WF_vars(ComputeProofReturn)

----------------------------------------------------------------------------
(* SpecLCG: a generator constructed from a seed, next() called on it *)

\* seeds whose first 8 bytes are 1, 0, the largest state, and mixed bytes
LCGSeeds ==
    {U256(1), Zero256, Tup([i \in 1..32 |-> 255]), Tup([i \in 1..32 |-> IF i > 8 THEN 255 ELSE 0]),
     CalculateSeed(U256(1), U256(2)), CalculateSeed(U256(2), U256(3))}

\* lines 25-28: LCG::next
LCGNext ==
    /\ pc = "lcg"
    /\ lcgN < MaxNext
    /\ lcgPrev' = m_state
    /\ m_state' = LCGStep(m_state)
    /\ lcgOut' = LCGOutput(m_state')
    /\ lcgN' = lcgN + 1
    /\ UNCHANGED <<block, pindexPrev, limit, pc, caller, commitmentOutIndex, submittedProof,
                   M_real, cpPrev, cpRoot, currentSize, virtualTxs, rejected, firstSize,
                   proof, merkleCalls, verdict, calls, randsUsed, built, scanned>>

InitLCG ==
    /\ pc = "lcg"
    /\ \E seed \in LCGSeeds : m_state = LCGInit(seed)
    /\ lcgPrev = m_state
    /\ lcgOut = <<0, 0, 0, 0>>
    /\ lcgN = 0
    /\ block = [vtx |-> <<Coinbase(<<>>)>>]
    /\ pindexPrev = NullIndex
    /\ limit = 0
    /\ caller = "none"
    /\ commitmentOutIndex = -1
    /\ submittedProof = Zero256
    /\ M_real = Zero256
    /\ cpPrev = Zero256
    /\ cpRoot = Zero256
    /\ currentSize = 0
    /\ virtualTxs = <<>>
    /\ rejected = <<>>
    /\ firstSize = 0
    /\ proof = Zero256
    /\ merkleCalls = 0
    /\ verdict = "none"
    /\ calls = <<>>
    /\ randsUsed = {}
    /\ built = [stage |-> "none", pos |-> 0, k |-> 0]
    /\ scanned = 0

NextLCG == LCGNext

SpecLCG == InitLCG /\ [][NextLCG]_vars

----------------------------------------------------------------------------
(* Properties *)

\* the layout of a commitment script as the specification words it: 38 bytes,
\* the marker opcode, the push length 0x24, the 4-byte tag
MatchesLayout(script) ==
    /\ Len(script) = 38
    /\ script[1] = 106
    /\ script[2] = 36
    /\ <<script[3], script[4], script[5], script[6]>> = TCCP_MAGIC_BYTES

\* the (1-based) places of the coinbase outputs whose script has the layout
Matches == {i \in 1..Len(block.vtx[1].vout) : MatchesLayout(block.vtx[1].vout[i].scriptPubKey)}

\* the recorded invocations of ComputeProof with the inputs of record c
SameInputs(c, d) == c.prev = d.prev /\ c.root = d.root /\ c.limit = d.limit

\* C1: a block built by inserting one commitment to ComputeProof(H, R, limit)
\* into a coinbase without one verifies as true on parent H with the same
\* limit, when InsecureRand256() returns one constant throughout; the root
\* VerifyBlock reconstructs is the root R the producer computed the proof for.
RoundTripAccepted ==
    (pc = "done" /\ built.stage = "built" /\ Cardinality(randsUsed) <= 1)
        => /\ verdict = "true"
           /\ M_real = calls[built.k].root
           /\ calls[built.k].prev = pindexPrev
           /\ calls[built.k].limit = limit
           /\ submittedProof = calls[built.k].proof

RoundTripWitness ==
    /\ pc = "done"
    /\ built.stage = "built"
    /\ built.pos > 0
    /\ Cardinality(randsUsed) = 1
    /\ verdict = "true"
    /\ virtualTxs # <<>>
    /\ Len(block.vtx) = 2

\* C2: any two invocations of ComputeProof with equal prevBlockHash, realRoot
\* and challenge size limit return the same proof.
ComputeProofDeterministic ==
    \A i \in 1..Len(calls) : \A j \in 1..Len(calls) :
        SameInputs(calls[i], calls[j]) => calls[i].proof = calls[j].proof

\* C3: VerifyBlock of a non-genesis block whose coinbase has no output, or two
\* or more outputs, with the commitment layout returns false, whatever the
\* proofs they carry.
NoneOrManyRejected ==
    (pindexPrev # NullIndex /\ verdict # "none" /\ Cardinality(Matches) # 1)
        => verdict = "false"

NoneOrManyWitness ==
    /\ pindexPrev # NullIndex
    /\ verdict = "false"
    /\ limit = 0
    /\ Cardinality(Matches) = 2
    /\ \A i \in Matches : block.vtx[1].vout[i].scriptPubKey = Commitment(Zero256)

\* C4: VerifyBlock returns true only if the submitted proof equals
\* ComputeProof(parent hash, reconstructed real root, limit): no block is
\* accepted whose proof differs from a value ComputeProof returned for
\* these inputs.
AcceptsOnlyTheProof ==
    verdict = "true" =>
        \A k \in 1..Len(calls) :
            (calls[k].prev = pindexPrev /\ calls[k].root = M_real /\ calls[k].limit = limit)
                => submittedProof = calls[k].proof

\* C5: without a parent handle VerifyBlock returns true whatever the block
\* holds, having looked at no output and computed no proof.
GenesisExempt ==
    pindexPrev = NullIndex =>
        \/ pc = "idle" /\ verdict = "none"
        \/ /\ pc = "done"
           /\ verdict = "true"
           /\ scanned = 0
           /\ calls = <<>>
           /\ randsUsed = {}
           /\ lcgN = 0

GenesisWitness ==
    /\ pindexPrev = NullIndex
    /\ verdict = "true"
    /\ Cardinality(Matches) = 2
    /\ block.vtx[1].vout[1].scriptPubKey = Commitment(U256(5))

\* C6: the sizes of the transactions of the challenge set sum to the running
\* total, which never exceeds maxSize, after every pass of the loop; the loop
\* ends only by discarding a transaction, which with the total would exceed
\* maxSize and is not in the set.
SizeBudget ==
    /\ currentSize = SumSeq(Tup([i \in 1..Len(virtualTxs) |-> GetTotalSize(virtualTxs[i])]))
    /\ currentSize <= limit
    /\ Len(rejected) <= 1
    /\ Len(virtualTxs) + Len(rejected) = lcgN \div DrawsPerTx
    /\ rejected # <<>> => currentSize + rejected[1] > limit
    /\ (pc = "ret" \/ calls # <<>>) => rejected # <<>>

SizeBudgetWitness ==
    /\ pc = "ret"
    /\ Len(virtualTxs) = 2
    /\ currentSize = limit
    /\ rejected # <<>>

\* C7: when maxSize is smaller than the size of the first synthetic
\* transaction the challenge set is empty and ComputeProof returns the
\* all-zero value without calling ComputeMerkleRoot; otherwise it returns the
\* Merkle root of the transactions' hashes in generation order.
EmptyChallengeZero ==
    calls # <<>> =>
        /\ limit < firstSize => /\ virtualTxs = <<>>
                                /\ calls[1].proof = Zero256
                                /\ merkleCalls = 0
        /\ Len(virtualTxs) = 1 => calls[1].proof = GetHash(virtualTxs[1])
        /\ Len(virtualTxs) = 2 =>
              calls[1].proof = Hash256(GetHash(virtualTxs[1]) \o GetHash(virtualTxs[2]))
        /\ virtualTxs # <<>> =>
              /\ merkleCalls = 1
              /\ calls[1].proof =
                    ComputeMerkleRoot(Tup([i \in 1..Len(virtualTxs) |-> GetHash(virtualTxs[i])]))

EmptyChallengeWitness ==
    /\ calls # <<>>
    /\ limit > 0
    /\ limit < firstSize
    /\ proof = Zero256
    /\ merkleCalls = 0

\* C8: an output counts as the commitment exactly when its script has the
\* layout; with one such output the submitted proof is bytes 6-37 of its
\* script and VerifyBlock goes on to compare proofs; with none it returns
\* false; other scripts change neither the count nor the verdict.
CommitmentMatching ==
    (pindexPrev # NullIndex /\ verdict # "none") =>
        /\ Cardinality(Matches) = 0 => commitmentOutIndex = -1 /\ calls = <<>>
        /\ Cardinality(Matches) = 1 =>
              /\ commitmentOutIndex + 1 \in Matches
              /\ submittedProof =
                    SubSeq(block.vtx[1].vout[commitmentOutIndex + 1].scriptPubKey, 7, 38)
              /\ scanned = Len(block.vtx[1].vout)
              /\ calls # <<>>
              /\ verdict = "true" <=> submittedProof = calls[1].proof
        /\ Cardinality(Matches) >= 2 => calls = <<>>

CommitmentMatchingWitness ==
    /\ pindexPrev # NullIndex
    /\ verdict = "true"
    /\ Cardinality(Matches) = 1
    /\ Len(block.vtx[1].vout) = 2
    /\ commitmentOutIndex = 1
    /\ block.vtx[1].vout[1].scriptPubKey = Long39

\* the sum of two 64-bit values modulo 2^64, bytes i..8 given the carry into byte i
RECURSIVE AddFrom(_, _, _, _)
AddFrom(x, y, i, c) ==
    IF i > 8 THEN <<>>
    ELSE <<(x[i] + y[i] + c) % 256>> \o AddFrom(x, y, i + 1, (x[i] + y[i] + c) \div 256)

Add64(x, y) == AddFrom(x, y, 1, 0)

\* 1013904223 as a 64-bit value
Increment64 ==
    <<LCG_C % 256, (LCG_C \div 256) % 256, (LCG_C \div 65536) % 256,
      LCG_C \div 16777216, 0, 0, 0, 0>>

\* the partial sums of acc + (1664525 \div 2^k) * xk modulo 2^64, taken bit by
\* bit of the multiplier from bit k up, doubling xk at each bit; the last
\* element is the sum
RECURSIVE ShiftAdd(_, _, _)
ShiftAdd(xk, k, acc) ==
    IF 2^k > LCG_A THEN <<acc>>
    ELSE <<acc, xk>> \o ShiftAdd(Add64(xk, xk), k + 1,
                                 IF (LCG_A \div 2^k) % 2 = 1 THEN Add64(acc, xk) ELSE acc)

\* (1664525 * x + 1013904223) mod 2^64
Recurrence(x) == ShiftAdd(x, 0, Increment64)[Len(ShiftAdd(x, 0, Increment64))]

\* C9: the generator state is a 64-bit unsigned value; next() sets it to
\* (1664525 * state + 1013904223) mod 2^64 and returns the upper 32 bits of
\* the new state; from state 1 the first output is
\* (1664525 * 1 + 1013904223) >> 32.
GeneratorExact ==
    /\ Len(m_state) = 8
    /\ \A i \in 1..8 : m_state[i] \in Byte
    /\ lcgN > 0 =>
          /\ m_state = Recurrence(lcgPrev)
          /\ lcgOut = <<m_state[5], m_state[6], m_state[7], m_state[8]>>
          /\ lcgPrev = <<1, 0, 0, 0, 0, 0, 0, 0>> =>
                /\ lcgOut = Int32(((LCG_A * 1 + LCG_C) \div 65536) \div 65536)
                /\ m_state[1] + 256 * m_state[2] + 65536 * m_state[3]
                      + 16777216 * m_state[4] = LCG_A * 1 + LCG_C

GeneratorWitness ==
    /\ pc = "lcg"
    /\ lcgN = MaxNext
    /\ m_state[8] >= 128
    /\ lcgPrev[8] < 128

\* the size of the smallest synthetic transaction: every next() returning 0
MinTxSize == GetTotalSize(VirtualTx(Tup([k \in 1..DrawsPerTx |-> <<0, 0, 0, 0, 0, 0, 0, 0>>]), Zero256))

\* C10: the loop ends: every accepted transaction has a positive size and
\* increases the running total, the accepted transactions number at most
\* maxSize divided by the smallest transaction size, and the loop is left.
LoopTerminates ==
    /\ [](Len(virtualTxs) * MinTxSize <= limit)
    /\ [][(pc = "gen" /\ pc' = "gen") =>
            /\ currentSize' > currentSize
            /\ currentSize' <= limit
            /\ Len(virtualTxs') = Len(virtualTxs) + 1]_vars
    /\ (pc = "gen") ~> (pc = "ret")

LoopTerminatesWitness ==
    /\ pc = "ret"
    /\ limit = 500
    /\ Len(virtualTxs) = 4

====
